---- MODULE Spec2Model ----
(***************************************************************************)
(* Bookmark synchronization layer: the useBookmarks projection             *)
(* (hooks/useBookmarks.ts), the add dialog and drag-and-drop entry points  *)
(* (components/AddBookmark.tsx, app/bookmarks/page.tsx), the validators    *)
(* (utils/validators.ts) and the realtime supervisor                       *)
(* (hooks/useRealtimeBookmarks.ts, polling version).                       *)
(***************************************************************************)
EXTENDS Integers, Sequences, FiniteSets, TLC

\* ------------------------------------------------------------------ bounds
MaxRows == 2        \* bookmark ids the store ever assigns
MaxInflight == 2    \* gateway calls (reads and mutations) in flight at once
MaxColls == 3       \* collection rows ever inserted, the initial one included
MaxExtra == 1       \* rows a table preloaded to the 'recent' limit may gain

\* ------------------------------------------------------- program constants
RecentLimit == 10   \* .limit(10) of the 'recent' filter
RecentCap == 10     \* Math.min(allResult.count ?? 0, 10)
MaxCollNameLen == 50  \* trimmed.length > 50, char_length(name) <= 50
MaxTitleLen == 500  \* isValidTitle: title.length <= 500

\* ------------------------------------------------------------------ values
NoUser == "null"
Users == {"u1"}
NoColl == "null"
Collections == {"c1"}
Filters == {"all", "favorites", "recent", "trash"} \cup Collections
NoError == "null"
GatewayMsg == "gateway error"
NotFoundMsg == "Bookmark not found"
NotAuthMsg == "Not authenticated"
NoRet == [kind |-> "none", success |-> FALSE, error |-> NoError]
NoCont == [op |-> "none", error |-> NoError]
NoCall == "none"
NoStamp == "null"   \* deleted_at: null
Stamp == "set"      \* deleted_at: a timestamp
NoColRet == [op |-> "none", outcome |-> "none", id |-> NoColl, members |-> {}, reassign |-> "none"]
NoCount == -1      \* count: null, the answer of a count query that failed
ZeroCounts == [all |-> 0, favorites |-> 0, recent |-> 0, trash |-> 0]

\* Results of a count query: the numbers around the cap of 'recent'.
CountSamples == {0, 1, RecentCap, RecentCap + 2}
Callbacks == {"cb1", "cb2"}

\* Titles by what isValidTitle reads: length and length after trim().
TEmpty == [len |-> 0, trimLen |-> 0]
TBlank == [len |-> 1, trimLen |-> 0]
TOk == [len |-> 1, trimLen |-> 1]
TLong == [len |-> MaxTitleLen + 1, trimLen |-> MaxTitleLen + 1]
Titles == {TEmpty, TBlank, TOk, TLong}

\* Collection names by what the checks read (length, length after trim())
\* and the text the UNIQUE(user_id, name) constraint compares.
NoName == "none"
NFirst == [len |-> 1, trimLen |-> 1, text |-> "first"]
NEmpty == [len |-> 0, trimLen |-> 0, text |-> ""]
NBlank == [len |-> 2, trimLen |-> 0, text |-> "  "]
NOk == [len |-> 1, trimLen |-> 1, text |-> "a"]
NPadded == [len |-> MaxCollNameLen + 2, trimLen |-> MaxCollNameLen, text |-> " b "]
NLong == [len |-> MaxCollNameLen + 1, trimLen |-> MaxCollNameLen + 1, text |-> "long"]
NExt == [len |-> 1, trimLen |-> 1, text |-> "x"]
CollNames == {NEmpty, NBlank, NOk, NPadded, NLong, NFirst}

\* ids the collections table assigns, in creation order
CollPool == <<"c1", "c2", "c3", "c4", "c5">>
NotAuthCollMsg == "User not authenticated"
DuplicateMsg == "duplicate key value violates unique constraint"

\* URLs by what isValidUrl reads: whether new URL() parses, and the protocol.
UHttps == [parses |-> TRUE, protocol |-> "https:"]
UFtp == [parses |-> TRUE, protocol |-> "ftp:"]
UBad == [parses |-> FALSE, protocol |-> ""]
Urls == {UHttps, UFtp, UBad}

VARIABLES
  userId,     \* useBookmarks argument: the signed-in user id or NoUser
  filter,     \* useBookmarks argument: the active BookmarkFilter
  store,      \* remote table: id -> [fav, deleted, deletedAt, coll] of the existing rows
  nextId,     \* next id the store assigns (created_at order = id order)
  items,      \* state.bookmarks: sequence of [id, fav]
  loading,    \* state.loading
  error,      \* state.error
  fetches,    \* reads in flight, in issue order
  muts,       \* mutations in flight, in issue order
  ret,        \* result returned to the caller by the step just taken
  formErrors, \* AddBookmark dialog: errors state (set of field names)
  supUserId,          \* useRealtimeBookmarks: the userId its effect last ran with
  openChannels,       \* channels opened by supabase.channel() and not yet removed
  chanStatus,         \* last status reported for the current effect's channel
  realtimeConnected,  \* realtimeConnectedRef.current
  pollInterval,       \* pollIntervalRef.current is set
  pollTimers,         \* intervals created by setInterval and not yet cleared
  connTimeout,        \* the current effect's connectionTimeout: none/pending/fired
  visible,            \* document.visibilityState === 'visible'
  refetched,          \* reconciliation callback invocations by the step just taken
  pendingTimeouts,    \* timers created by setTimeout and neither fired nor cleared
  onRefetch,          \* the onRefetch prop of the latest render
  onRefetchRef,       \* onRefetchRef.current
  called,             \* the callback the step just taken invoked, or NoCall
  staleEffects,       \* an earlier effect run was cleaned up (its mounted is false)
  cntUserId,          \* useBookmarkCounts argument: the user id or NoUser
  counts,             \* useBookmarkCounts state: [all, favorites, recent, trash]
  cntReqs,            \* refreshes (Promise.all of three count queries) in flight
  colUserId,          \* useCollections argument: the user id or NoUser
  storeColls,         \* remote table collections: ids of the existing rows
  collections,        \* useCollections state: sequence of collection ids
  colLoading,         \* useCollections state: loading
  colError,           \* useCollections state: error
  colReqs,            \* useCollections gateway calls in flight, in issue order
  colRet,             \* how the useCollections call that just completed ended
  collMeta            \* name and position of every collection row ever inserted

projVars == <<userId, filter, store, nextId, items, loading, error, fetches, muts, ret, formErrors>>

supVars == <<supUserId, openChannels, chanStatus, realtimeConnected, pollInterval,
             pollTimers, connTimeout, visible, refetched, pendingTimeouts, onRefetch,
             onRefetchRef, called, staleEffects>>

\* useBookmarkCounts
cntVars == <<cntUserId, counts, cntReqs>>

\* useCollections and the collections table
colVars == <<colUserId, storeColls, collections, colLoading, colError, colReqs, colRet, collMeta>>

\* the hooks beside the projection and the realtime supervisor
auxVars == <<cntVars, colVars>>

vars == <<projVars, supVars, auxVars>>

\* ----------------------------------------------------------------- helpers
Ids == 1..MaxRows

IdsOf(seq) == {seq[i].id : i \in DOMAIN seq}

RemoveAt(seq, i) == SubSeq(seq, 1, i - 1) \o SubSeq(seq, i + 1, Len(seq))

Max(S) == CHOOSE x \in S : \A y \in S : y <= x

RECURSIVE SortDesc(_)
SortDesc(S) == IF S = {} THEN <<>> ELSE <<Max(S)>> \o SortDesc(S \ {Max(S)})

Take(seq, n) == SubSeq(seq, 1, IF Len(seq) < n THEN Len(seq) ELSE n)

Inflight == Len(fetches) + Len(muts)

\* Array.prototype.filter((b) => b.id !== id)
WithoutId(seq, id) == SelectSeq(seq, LAMBDA b : b.id # id)

\* Array.prototype.map((b) => b.id === id ? {...b, is_favorite: v} : b)
WithFav(seq, id, v) ==
  [i \in DOMAIN seq |-> IF seq[i].id = id THEN [seq[i] EXCEPT !.fav = v] ELSE seq[i]]

\* Array.prototype.find((b) => b.id === id): index of the first match, 0 if none
FindIndex(seq, id) ==
  IF id \in IdsOf(seq) THEN CHOOSE i \in DOMAIN seq :
       seq[i].id = id /\ \A j \in 1..(i - 1) : seq[j].id # id
  ELSE 0

\* ------------------------------------------------------------- validators
isValidUrl(url) == url.parses /\ url.protocol \in {"http:", "https:"}

isValidTitle(title) == title.trimLen > 0 /\ title.len <= MaxTitleLen

\* validateBookmark(...).errors as the set of fields it names
validateBookmark(title, url) ==
  (IF isValidTitle(title) THEN {} ELSE {"title"}) \cup
  (IF isValidUrl(url) THEN {} ELSE {"url"})

\* ---------------------------------------------------- gateway read (query)
\* Mutant: the favorites read forgets is_deleted = false.
MatchesFilterKeepsDeleted(row, f) ==
  CASE f = "all" -> ~row.deleted
    [] f = "favorites" -> row.fav
    [] f = "recent" -> ~row.deleted
    [] f = "trash" -> row.deleted
    [] OTHER -> ~row.deleted /\ row.coll = f

MatchesFilter(row, f) ==
  CASE f = "all" -> ~row.deleted
    [] f = "favorites" -> ~row.deleted /\ row.fav
    [] f = "recent" -> ~row.deleted
    [] f = "trash" -> row.deleted
    [] OTHER -> ~row.deleted /\ row.coll = f

\* The rows the filtered read returns, created_at descending, 'recent' capped.
Query(s, f) ==
  LET ids == SortDesc({id \in DOMAIN s : MatchesFilter(s[id], f)})
      rows == [i \in DOMAIN ids |-> [id |-> ids[i], fav |-> s[ids[i]].fav]]
  IN IF f = "recent" THEN Take(rows, RecentLimit) ELSE rows

shouldBookmarkAppearInFilter(bookmark, f) ==
  IF bookmark.deleted THEN f = "trash"
  ELSE CASE f \in {"all", "recent"} -> TRUE
         [] f = "favorites" -> bookmark.fav
         [] f = "trash" -> FALSE
         [] OTHER -> bookmark.coll = f

\* -------------------------------------------------------------------- Init
\* the page before sign-in, over a bookmarks table holding the rows s
InitWith(s) ==
  /\ userId = NoUser
  /\ filter = "all"
  /\ store = s
  /\ nextId = Len(s) + 1
  /\ items = <<>>
  /\ loading = FALSE
  /\ error = NoError
  /\ fetches = <<>>
  /\ muts = <<>>
  /\ ret = NoRet
  /\ formErrors = {}
  /\ supUserId = NoUser
  /\ openChannels = 0
  /\ chanStatus = "none"
  /\ realtimeConnected = FALSE
  /\ pollInterval = FALSE
  /\ pollTimers = 0
  /\ connTimeout = "none"
  /\ visible = TRUE
  /\ refetched = 0
  /\ pendingTimeouts = 0
  /\ onRefetch = "cb1"
  /\ onRefetchRef = "cb1"
  /\ called = NoCall
  /\ staleEffects = FALSE
  /\ cntUserId = NoUser
  /\ counts = ZeroCounts
  /\ cntReqs = <<>>
  /\ colUserId = NoUser
  /\ storeColls = Collections
  /\ collections = <<>>
  /\ colLoading = FALSE
  /\ colError = NoError
  /\ colReqs = <<>>
  /\ colRet = NoColRet
  /\ collMeta = [c \in Collections |-> [name |-> NFirst.text, position |-> 1]]

Init == InitWith(<<>>)

\* Table contents for the filtered read: n rows, row k deleted, favorite or in
\* collection c1 when k is a multiple of the period (period 0: no row is).
QuerySizes == {0, 3, RecentLimit, RecentLimit + 2}
Periods == {0, 1, 2, 7}
Hit(k, period) == period # 0 /\ k % period = 0

StoreOf(n, d, f, c) ==
  [k \in 1..n |-> [fav |-> Hit(k, f),
                   deleted |-> Hit(k, d),
                   deletedAt |-> IF Hit(k, d) THEN Stamp ELSE NoStamp,
                   coll |-> IF Hit(k, c) THEN "c1" ELSE NoColl]]

InitQuery == \E n \in QuerySizes, d \in Periods, f \in Periods, c \in Periods : InitWith(StoreOf(n, d, f, c))

\* ------------------------------------------------------------ results
Ok(kind) == [kind |-> kind, success |-> TRUE, error |-> NoError]
Fail(kind, msg) == [kind |-> kind, success |-> FALSE, error |-> msg]

\* What a mutation returns once the load it awaited has completed.
Result(cont) ==
  IF cont.op = "none" THEN NoRet
  ELSE [kind |-> cont.op, success |-> cont.error = NoError, error |-> cont.error]

\* A step of a handler that only patches the list and may return.
LocalOnly(newItems, r) ==
  /\ items' = newItems
  /\ ret' = r
  /\ UNCHANGED <<loading, error, fetches>>

\* -------------------------------------------------------- fetchBookmarks
\* Every read in flight when a newer load is requested is no longer the most
\* recently issued one.  (History field; the code keeps no such tag.)
MarkStale(fs) == [i \in DOMAIN fs |-> [fs[i] EXCEPT !.stale = TRUE]]

\* fetchBookmarks of the render that captured user u and filter f, up to the
\* await of the query.  cont: what the awaiting mutation returns afterwards.
fetchBookmarks(u, f, cont) ==
  IF u = NoUser
  THEN /\ items' = <<>>
       /\ loading' = FALSE
       /\ error' = NoError
       /\ fetches' = MarkStale(fetches)
       /\ ret' = Result(cont)
  ELSE /\ items' = items
       /\ loading' = TRUE
       /\ error' = NoError
       /\ fetches' = Append(MarkStale(fetches),
                            [user |-> u, filter |-> f, phase |-> "sent",
                             data |-> <<>>, stale |-> FALSE, cont |-> cont])
       /\ ret' = NoRet

\* handleMoveToCollection after its await: refetchBookmarks() of the render
\* that created the handler (user u, filter f), not awaited.  fs, its, err:
\* reads in flight, list and error as the hook left them; r: what the hook returned.
AfterMove(u, f, fs, its, r) ==
  IF u = NoUser
  THEN /\ items' = <<>>
       /\ loading' = FALSE
       /\ error' = NoError
       /\ fetches' = MarkStale(fs)
       /\ ret' = r
  ELSE /\ items' = its
       /\ loading' = TRUE
       /\ error' = NoError
       /\ fetches' = Append(MarkStale(fs),
                            [user |-> u, filter |-> f, phase |-> "sent",
                             data |-> <<>>, stale |-> FALSE, cont |-> NoCont])
       /\ ret' = r

\* The store evaluates the query of read i.
FetchServe(i) ==
  /\ fetches[i].phase = "sent"
  /\ fetches' = [fetches EXCEPT ![i].phase = "served",
                                ![i].data = Query(store, fetches[i].filter)]
  /\ ret' = NoRet
  /\ UNCHANGED <<userId, filter, store, nextId, items, loading, error, muts, formErrors, supVars, auxVars>>

\* fetchBookmarks after the await, no error: setState({bookmarks: data, ...})
FetchDeliverCore(i) ==
  /\ fetches[i].phase = "served"
  /\ IF fetches[i].cont.op = "move"
     THEN AfterMove(fetches[i].user, fetches[i].filter, RemoveAt(fetches, i),
                    fetches[i].data, Result(fetches[i].cont))
     ELSE /\ items' = fetches[i].data
          /\ loading' = FALSE
          /\ error' = NoError
          /\ fetches' = RemoveAt(fetches, i)
          /\ ret' = Result(fetches[i].cont)
  /\ UNCHANGED <<userId, filter, store, nextId, muts, formErrors, supVars>>

FetchDeliver(i) == FetchDeliverCore(i) /\ UNCHANGED auxVars

\* fetchBookmarks after the await, error: setState({bookmarks: [], ...})
FetchFailCore(i) ==
  /\ fetches[i].phase = "sent"
  /\ IF fetches[i].cont.op = "move"
     THEN AfterMove(fetches[i].user, fetches[i].filter, RemoveAt(fetches, i),
                    <<>>, Result(fetches[i].cont))
     ELSE /\ items' = <<>>
          /\ loading' = FALSE
          /\ error' = GatewayMsg
          /\ fetches' = RemoveAt(fetches, i)
          /\ ret' = Result(fetches[i].cont)
  /\ UNCHANGED <<userId, filter, store, nextId, muts, formErrors, supVars>>

\* Mutant: a failed load keeps the rows that were listed.
FetchFailKeepsItems(i) ==
  /\ fetches[i].phase = "sent"
  /\ items' = items
  /\ loading' = FALSE
  /\ error' = GatewayMsg
  /\ fetches' = RemoveAt(fetches, i)
  /\ ret' = Result(fetches[i].cont)
  /\ UNCHANGED <<userId, filter, store, nextId, muts, formErrors, supVars, auxVars>>

FetchFail(i) == FetchFailCore(i) /\ UNCHANGED auxVars

\* useEffect(() => { fetchBookmarks() }, [fetchBookmarks]) after userId changed
Login(u) ==
  /\ userId = NoUser
  /\ Inflight < MaxInflight
  /\ userId' = u
  /\ fetchBookmarks(u, filter, NoCont)
  /\ UNCHANGED <<filter, store, nextId, muts, formErrors, supVars, auxVars>>

Logout ==
  /\ userId # NoUser
  /\ userId' = NoUser
  /\ fetchBookmarks(NoUser, filter, NoCont)
  /\ UNCHANGED <<filter, store, nextId, muts, formErrors, supVars, auxVars>>

\* the same effect after the filter changed
SetFilter(f) ==
  /\ f # filter
  /\ userId = NoUser \/ Inflight < MaxInflight
  /\ filter' = f
  /\ fetchBookmarks(userId, f, NoCont)
  /\ UNCHANGED <<userId, store, nextId, muts, formErrors, supVars, auxVars>>

\* refetch(), as called by the reconciliation callback handleRealtimeRefetch
RefetchCore ==
  /\ userId = NoUser \/ Inflight < MaxInflight
  /\ fetchBookmarks(userId, filter, NoCont)
  /\ UNCHANGED <<userId, filter, store, nextId, muts, formErrors, supVars>>

Refetch == RefetchCore /\ UNCHANGED auxVars

\* ------------------------------------------------------------- mutations
\* A gateway mutation in flight, with what the calling closure captured.
\* overlap: a toggle of the same item was in flight together with this one;
\* found: the row existed when the store evaluated the call (history fields,
\* read by no action).
Mut(op, id, val, coll, title, url, via) ==
  [op |-> op, id |-> id, val |-> val, coll |-> coll, title |-> title, url |-> url,
   via |-> via, user |-> userId, filter |-> filter, phase |-> "sent", overlap |-> FALSE,
   found |-> TRUE]

SameToggle(m, id) == m.op = "toggle" /\ m.id = id

\* the toggles of item id in flight, and the one being issued, overlap
Overlapping(ms, m, id) ==
  IF \E j \in DOMAIN ms : SameToggle(ms[j], id)
  THEN Append([j \in DOMAIN ms |-> IF SameToggle(ms[j], id)
                                   THEN [ms[j] EXCEPT !.overlap = TRUE] ELSE ms[j]],
              [m EXCEPT !.overlap = TRUE])
  ELSE Append(ms, m)

PlainMut(op, id, val, coll) == Mut(op, id, val, coll, TOk, UHttps, "hook")

PendingAdds == Cardinality({i \in DOMAIN muts : muts[i].op = "add" /\ muts[i].phase = "sent"})

\* Bound on the rows created: a table grows to MaxRows rows; one preloaded
\* with RecentLimit rows or more takes MaxExtra further rows.
HasRoom ==
  nextId + PendingAdds <= IF nextId > RecentLimit THEN RecentLimit + MaxExtra ELSE MaxRows

\* addBookmark up to the await of the insert
addBookmark(title, url, collectionId, via) ==
  IF userId = NoUser
  THEN /\ ret' = Fail("add", NotAuthMsg)
       /\ UNCHANGED <<muts, items, loading, error, fetches>>
  ELSE /\ Inflight < MaxInflight
       /\ HasRoom
       /\ muts' = Append(muts, Mut("add", 0, FALSE, collectionId, title, url, via))
       /\ ret' = NoRet
       /\ UNCHANGED <<items, loading, error, fetches>>

\* page.tsx: the collection being viewed, if any
activeCollectionId == IF filter \in Collections THEN filter ELSE NoColl

\* page.tsx handleAddBookmark: collectionId ?? activeCollectionId
handleAddBookmark(title, url, collectionId, via) ==
  addBookmark(title, url,
              IF collectionId # NoColl THEN collectionId ELSE activeCollectionId, via)

\* AddBookmark dialog, handleSubmit up to the await of onAdd
SubmitDialog(title, url, selected) ==
  /\ IF validateBookmark(title, url) # {}
     THEN /\ formErrors' = validateBookmark(title, url)
          /\ ret' = NoRet
          /\ UNCHANGED <<muts, items, loading, error, fetches>>
     ELSE /\ formErrors' = IF userId = NoUser THEN {"url"} ELSE {}
          /\ handleAddBookmark(title, url, selected, "dialog")
  /\ UNCHANGED <<userId, filter, store, nextId, supVars, auxVars>>

\* page.tsx handleDrop: extractUrlFromDrop returns only URLs isValidUrl accepts;
\* extractTitleFromDrop returns the link text or a name derived from the URL.
handleDrop(title, url) ==
  /\ isValidUrl(url)
  /\ title.len > 0
  /\ handleAddBookmark(title, url, NoColl, "drop")
  /\ UNCHANGED <<userId, filter, store, nextId, formErrors, supVars, auxVars>>

\* toggleFavorite up to the await of the update
toggleFavoriteCore(id) ==
  /\ LET k == FindIndex(items, id) IN
     IF k = 0
     THEN /\ ret' = Fail("toggle", NotFoundMsg)
          /\ UNCHANGED <<items, muts>>
     ELSE /\ Inflight < MaxInflight
          /\ items' = WithFav(items, id, ~items[k].fav)
          /\ muts' = Overlapping(muts, PlainMut("toggle", id, ~items[k].fav, NoColl), id)
          /\ ret' = NoRet
  /\ UNCHANGED <<userId, filter, store, nextId, loading, error, fetches, formErrors, supVars>>

toggleFavorite(id) == toggleFavoriteCore(id) /\ UNCHANGED auxVars

\* moveToTrash / restoreFromTrash / permanentDelete up to the await
RemoveOptimistically(op, id) ==
  /\ Inflight < MaxInflight
  /\ items' = WithoutId(items, id)
  /\ muts' = Append(muts, PlainMut(op, id, FALSE, NoColl))
  /\ ret' = NoRet
  /\ UNCHANGED <<userId, filter, store, nextId, loading, error, fetches, formErrors, supVars, auxVars>>

moveToTrash(id) == RemoveOptimistically("trash", id)

restoreFromTrash(id) == RemoveOptimistically("restore", id)

permanentDelete(id) == RemoveOptimistically("delete", id)

\* page.tsx: the handlers behind the buttons of a rendered bookmark.  A card
\* shows Restore and Delete-forever in the trash view and Delete elsewhere.
isTrashView == filter = "trash"

handleDelete(id) == IF isTrashView THEN permanentDelete(id) ELSE moveToTrash(id)

handleRestore(id) == isTrashView /\ restoreFromTrash(id)

handlePermanentDelete(id) == isTrashView /\ permanentDelete(id)

\* moveToCollection up to the await of the update
moveToCollection(id, collectionId) ==
  /\ Inflight < MaxInflight
  /\ muts' = Append(muts, PlainMut("move", id, FALSE, collectionId))
  /\ ret' = NoRet
  /\ UNCHANGED <<userId, filter, store, nextId, items, loading, error, fetches, formErrors, supVars, auxVars>>

\* the menu of a listed bookmark
handleMoveToCollection(id, collectionId) == moveToCollection(id, collectionId)

\* ------------------------------------------------- the store applies a mutation
\* Mutant: the trigger stamps deleted_at on every update.
set_deleted_atOnAnyUpdate(oldRow, newRow) == [newRow EXCEPT !.deletedAt = Stamp]

\* trigger bookmarks_set_deleted_at, BEFORE UPDATE FOR EACH ROW
set_deleted_at(oldRow, newRow) ==
  IF newRow.deleted /\ ~oldRow.deleted THEN [newRow EXCEPT !.deletedAt = Stamp]
  ELSE IF ~newRow.deleted /\ oldRow.deleted THEN [newRow EXCEPT !.deletedAt = NoStamp]
  ELSE newRow

\* UPDATE bookmarks SET ... WHERE id = id, new being the row the SET produces
Updated(s, id, new) == [s EXCEPT ![id] = set_deleted_at(s[id], new)]

UpdateRow(s, id, field, v) ==
  IF id \in DOMAIN s THEN Updated(s, id, [s[id] EXCEPT ![field] = v]) ELSE s

\* update({ is_deleted: true, deleted_at: new Date().toISOString() })
TrashRow(s, id) ==
  IF id \in DOMAIN s
  THEN Updated(s, id, [s[id] EXCEPT !.deleted = TRUE, !.deletedAt = Stamp])
  ELSE s

\* update({ is_deleted: false, deleted_at: null })
RestoreRow(s, id) ==
  IF id \in DOMAIN s
  THEN Updated(s, id, [s[id] EXCEPT !.deleted = FALSE, !.deletedAt = NoStamp])
  ELSE s

\* INSERT with the column defaults
NewRow(c) == [fav |-> FALSE, deleted |-> FALSE, deletedAt |-> NoStamp, coll |-> c]

Applied(s, m) ==
  CASE m.op = "toggle" -> UpdateRow(s, m.id, "fav", m.val)
    [] m.op = "trash" -> TrashRow(s, m.id)
    [] m.op = "restore" -> RestoreRow(s, m.id)
    [] m.op = "move" -> UpdateRow(s, m.id, "coll", m.coll)
    [] m.op = "delete" -> [x \in DOMAIN s \ {m.id} |-> s[x]]
    [] m.op = "add" -> [x \in DOMAIN s \cup {nextId} |->
                          IF x = nextId THEN NewRow(m.coll) ELSE s[x]]

\* Mutant: collection_id is a plain column, no reference is checked.
ForeignKeyUnchecked(c) == TRUE

\* collection_id UUID REFERENCES collections(id): the value written is null
\* or the id of an existing collection
ForeignKeyHolds(c) == c = NoColl \/ c \in storeColls

\* the statement of call m writes a collection_id the constraint rejects
Rejected(m) ==
  /\ m.op = "add" \/ (m.op = "move" /\ m.id \in DOMAIN store)
  /\ ~ForeignKeyHolds(m.coll)

MutServe(i) ==
  /\ muts[i].phase = "sent"
  /\ IF Rejected(muts[i])
     THEN /\ muts' = [muts EXCEPT ![i].phase = "refused"]
          /\ UNCHANGED <<store, nextId>>
     ELSE /\ store' = Applied(store, muts[i])
          /\ nextId' = IF muts[i].op = "add" THEN nextId + 1 ELSE nextId
          /\ muts' = [muts EXCEPT ![i].phase = "applied",
                                  ![i].id = IF muts[i].op = "add" THEN nextId ELSE muts[i].id,
                                  ![i].found = muts[i].op = "add" \/ muts[i].id \in DOMAIN store]
  /\ ret' = NoRet
  /\ UNCHANGED <<userId, filter, items, loading, error, fetches, formErrors, supVars, auxVars>>

\* ------------------------------------------- handlers after the await: success
AddSuccess(m) ==
  LET bookmark == [id |-> m.id, fav |-> FALSE, deleted |-> FALSE, coll |-> m.coll] IN
  LocalOnly(IF shouldBookmarkAppearInFilter(bookmark, m.filter)
            THEN <<[id |-> m.id, fav |-> FALSE]>> \o items
            ELSE items,
            Ok("add"))

\* Mutant: the favorites view keeps an item that was just unfavorited.
ToggleSuccessNoRemove(m) == LocalOnly(items, Ok("toggle"))

ToggleSuccess(m) ==
  LocalOnly(IF m.filter = "favorites" /\ ~m.val THEN WithoutId(items, m.id) ELSE items,
            Ok("toggle"))

RemoveSuccess(m) == LocalOnly(items, Ok(m.op))

MoveSuccess(m) == fetchBookmarks(m.user, m.filter, [op |-> "move", error |-> NoError])

MutDeliverCore(i) ==
  /\ muts[i].phase = "applied"
  /\ muts' = RemoveAt(muts, i)
  /\ CASE muts[i].op = "add" -> AddSuccess(muts[i])
       [] muts[i].op = "toggle" -> ToggleSuccess(muts[i])
       [] muts[i].op = "move" -> MoveSuccess(muts[i])
       [] OTHER -> RemoveSuccess(muts[i])
  /\ formErrors' = IF muts[i].via = "dialog" THEN {} ELSE formErrors
  /\ UNCHANGED <<userId, filter, store, nextId, supVars>>

MutDeliver(i) == MutDeliverCore(i) /\ UNCHANGED auxVars

\* ------------------------------------------- handlers after the await: failure
AddFailure(m) == LocalOnly(items, Fail("add", GatewayMsg))

ToggleFailure(m) == LocalOnly(WithFav(items, m.id, ~m.val), Fail("toggle", GatewayMsg))

RemoveFailure(m) == fetchBookmarks(m.user, m.filter, [op |-> m.op, error |-> GatewayMsg])

\* the hook returns the failure without a reload; the page handler that awaited
\* it then calls refetchBookmarks()
MoveFailure(m) == AfterMove(m.user, m.filter, fetches, items, Fail("move", GatewayMsg))

MutFailCore(i) ==
  /\ muts[i].phase \in {"sent", "refused"}
  /\ muts' = RemoveAt(muts, i)
  /\ CASE muts[i].op = "add" -> AddFailure(muts[i])
       [] muts[i].op = "toggle" -> ToggleFailure(muts[i])
       [] muts[i].op = "move" -> MoveFailure(muts[i])
       [] OTHER -> RemoveFailure(muts[i])
  /\ formErrors' = IF muts[i].via = "dialog" THEN {"url"} ELSE formErrors
  /\ UNCHANGED <<userId, filter, store, nextId, supVars>>

MutFail(i) == MutFailCore(i) /\ UNCHANGED auxVars

\* Another session (tab or device) of the same user inserts a row.
ExtInsert(c) ==
  /\ HasRoom
  /\ ForeignKeyHolds(c)
  /\ store' = Applied(store, [op |-> "add", coll |-> c])
  /\ nextId' = nextId + 1
  /\ ret' = NoRet
  /\ UNCHANGED <<userId, filter, items, loading, error, fetches, muts, formErrors, supVars, auxVars>>

\* Another session permanently deletes a row.
ExtDelete(id) ==
  /\ id \in DOMAIN store
  /\ store' = Applied(store, [op |-> "delete", id |-> id])
  /\ ret' = NoRet
  /\ UNCHANGED <<userId, filter, nextId, items, loading, error, fetches, muts, formErrors, supVars, auxVars>>

\* ------------------------------------------------ realtime supervisor
SupUsers == {"u1", "u2"}
Statuses == {"SUBSCRIBED", "CHANNEL_ERROR", "TIMED_OUT", "CLOSED"}

\* intervals left once stopPolling has run
TimersAfterStop == IF pollInterval THEN pollTimers - 1 ELSE pollTimers

\* Mutant: the interval is never cleared.
stopPollingForgotten == UNCHANGED <<pollInterval, pollTimers>>

stopPolling ==
  /\ pollInterval' = FALSE
  /\ pollTimers' = TimersAfterStop

\* Mutant: startPolling sets a new interval without stopping the old one.
startPollingWithoutStop ==
  /\ pollInterval' = TRUE
  /\ pollTimers' = pollTimers + 1

startPolling ==
  /\ pollInterval' = TRUE
  /\ pollTimers' = TimersAfterStop + 1

\* Mutant: the cleanup leaves the channel open.
ChannelsLeftOpen == openChannels

\* channels left once the effect cleanup has run: supabase.removeChannel(channel)
ChannelsAfterCleanup == IF supUserId # NoUser THEN openChannels - 1 ELSE openChannels

\* Mutant: the cleanup does not clear the connection timeout.
TimeoutsLeftPending == pendingTimeouts

\* timeouts left once the effect cleanup has run: clearTimeout(connectionTimeout)
\* (clearing a timer that has fired is a no-op)
TimeoutsAfterCleanup ==
  IF connTimeout = "pending" THEN pendingTimeouts - 1 ELSE pendingTimeouts

\* const onRefetchRef = useRef(onRefetch); onRefetchRef.current = onRefetch
RefAfterRender(cb) == cb

\* the callback invoked by onRefetchRef.current()
InvokeRefetch ==
  /\ refetched' = 1
  /\ called' = onRefetchRef

\* a step that invokes no reconciliation callback
NoRefetch ==
  /\ refetched' = 0
  /\ called' = NoCall

\* Mutant: the handlers of a cleaned-up effect run have no mounted guard.
HandledAfterCleanup ==
  /\ InvokeRefetch
  /\ UNCHANGED <<supUserId, openChannels, chanStatus, realtimeConnected, pollInterval,
                 pollTimers, connTimeout, visible, pendingTimeouts, onRefetch,
                 onRefetchRef, staleEffects, projVars, auxVars>>

\* if (!mounted) return: a handler of an effect run that was cleaned up
IgnoredAfterCleanup ==
  /\ NoRefetch
  /\ UNCHANGED <<supUserId, openChannels, chanStatus, realtimeConnected, pollInterval,
                 pollTimers, connTimeout, visible, pendingTimeouts, onRefetch,
                 onRefetchRef, staleEffects, projVars, auxVars>>

\* The subscription effect re-runs for user u: the cleanup of the previous run
\* (mounted = false, clearTimeout, stopPolling, removeChannel), then the new run.
\* The refs keep their values across runs.
RunEffect(u) ==
  /\ supUserId' = u
  /\ stopPolling
  /\ openChannels' = ChannelsAfterCleanup + (IF u # NoUser THEN 1 ELSE 0)
  /\ pendingTimeouts' = TimeoutsAfterCleanup + (IF u # NoUser THEN 1 ELSE 0)
  /\ chanStatus' = IF u # NoUser THEN "joining" ELSE "none"
  /\ connTimeout' = IF u # NoUser THEN "pending" ELSE "none"
  /\ staleEffects' = (staleEffects \/ supUserId # NoUser)
  /\ NoRefetch

\* the userId prop changes (sign-in, sign-out, another user)
UserChange(u) ==
  /\ u # supUserId
  /\ RunEffect(u)
  /\ UNCHANGED <<realtimeConnected, visible, onRefetch, onRefetchRef, projVars, auxVars>>

\* the component unmounts and a new instance mounts with user u: fresh refs
Remount(u) ==
  /\ RunEffect(u)
  /\ realtimeConnected' = FALSE
  /\ onRefetchRef' = RefAfterRender(onRefetch)
  /\ UNCHANGED <<visible, onRefetch, projVars, auxVars>>

\* the parent renders again and supplies another onRefetch
Rerender ==
  /\ \E cb \in Callbacks \ {onRefetch} :
       /\ onRefetch' = cb
       /\ onRefetchRef' = RefAfterRender(cb)
  /\ NoRefetch
  /\ UNCHANGED <<supUserId, openChannels, chanStatus, realtimeConnected, pollInterval,
                 pollTimers, connTimeout, visible, pendingTimeouts, staleEffects, projVars, auxVars>>

\* .subscribe((status, err) => ...) of the current effect's channel
StatusCallback(status) ==
  /\ supUserId # NoUser
  /\ chanStatus \notin {"none", "CLOSED"}
  /\ chanStatus' = status
  /\ CASE status = "SUBSCRIBED" -> realtimeConnected' = TRUE /\ stopPolling
       [] status \in {"CHANNEL_ERROR", "TIMED_OUT"} -> realtimeConnected' = FALSE /\ startPolling
       [] OTHER -> realtimeConnected' = FALSE /\ UNCHANGED <<pollInterval, pollTimers>>
  /\ NoRefetch
  /\ UNCHANGED <<supUserId, openChannels, connTimeout, visible, pendingTimeouts,
                 onRefetch, onRefetchRef, staleEffects, projVars, auxVars>>

\* the 10 s connectionTimeout of the current effect fires
ConnectionTimeout ==
  /\ connTimeout = "pending"
  /\ connTimeout' = "fired"
  /\ pendingTimeouts' = pendingTimeouts - 1
  /\ IF ~realtimeConnected /\ supUserId # NoUser
     THEN startPolling
     ELSE UNCHANGED <<pollInterval, pollTimers>>
  /\ NoRefetch
  /\ UNCHANGED <<supUserId, openChannels, chanStatus, realtimeConnected, visible,
                 onRefetch, onRefetchRef, staleEffects, projVars, auxVars>>

\* an interval created by startPolling fires
PollTick ==
  /\ pollTimers > 0
  /\ InvokeRefetch
  /\ UNCHANGED <<supUserId, openChannels, chanStatus, realtimeConnected, pollInterval,
                 pollTimers, connTimeout, visible, pendingTimeouts, onRefetch,
                 onRefetchRef, staleEffects, projVars, auxVars>>

\* a postgres_changes event is delivered on the joined channel
ChangeEvent ==
  /\ supUserId # NoUser
  /\ chanStatus = "SUBSCRIBED"
  /\ InvokeRefetch
  /\ UNCHANGED <<supUserId, openChannels, chanStatus, realtimeConnected, pollInterval,
                 pollTimers, connTimeout, visible, pendingTimeouts, onRefetch,
                 onRefetchRef, staleEffects, projVars, auxVars>>

\* a change event reaches the handler of a channel whose effect was cleaned up
LateChangeEvent ==
  /\ staleEffects
  /\ IgnoredAfterCleanup

\* a status (the CLOSED of removeChannel among them) reaches the status
\* callback of a channel whose effect was cleaned up
LateStatus(status) ==
  /\ staleEffects
  /\ status \in Statuses
  /\ IgnoredAfterCleanup

\* handleVisibilityChange
VisibilityChange ==
  /\ visible' = ~visible
  /\ IF visible' THEN InvokeRefetch ELSE NoRefetch
  /\ UNCHANGED <<supUserId, openChannels, chanStatus, realtimeConnected, pollInterval,
                 pollTimers, connTimeout, pendingTimeouts, onRefetch, onRefetchRef,
                 staleEffects, projVars, auxVars>>

\* ---------------------------------------------------- useBookmarkCounts
Min(a, b) == IF a <= b THEN a ELSE b

\* count ?? 0
OrZero(c) == IF c = NoCount THEN 0 ELSE c

\* Mutant: 'recent' is the fixed number the documentation describes.
RecentAlwaysCap(allCount) == RecentCap

\* Math.min(allResult.count ?? 0, 10)
RecentCount(allCount) == Min(allCount, RecentCap)

\* A refresh in flight.  overtaken: a refresh issued later has already been
\* answered.  (History field; the code keeps no such tag.)
CntReq(u) == [user |-> u, overtaken |-> FALSE]

\* the refreshes issued before refresh i are overtaken by its answer
Overtake(rs, i) ==
  [j \in DOMAIN rs |-> IF j < i THEN [rs[j] EXCEPT !.overtaken = TRUE] ELSE rs[j]]

\* fetchCounts of the render that captured user u, up to the await
fetchCounts(u) ==
  IF u = NoUser
  THEN /\ counts' = ZeroCounts
       /\ cntReqs' = cntReqs
  ELSE /\ Len(cntReqs) < MaxInflight
       /\ counts' = counts
       /\ cntReqs' = Append(cntReqs, CntReq(u))

\* useEffect(() => { fetchCounts() }, [fetchCounts]) after userId changed
CountsUserChange(u) ==
  /\ u # cntUserId
  /\ cntUserId' = u
  /\ fetchCounts(u)
  /\ UNCHANGED <<projVars, supVars, colVars>>

\* refetchCounts(), as the page calls it after a mutation and from the
\* reconciliation callback
refetchCounts ==
  /\ fetchCounts(cntUserId)
  /\ UNCHANGED <<cntUserId, projVars, supVars, colVars>>

\* Promise.all resolves for refresh i: each query answers with a count, or
\* with count: null when it failed; then setCounts.
CountsRespond(i, allCount, favCount, trashCount) ==
  /\ (allCount # NoCount /\ favCount # NoCount) => favCount <= allCount
  /\ counts' = [all |-> OrZero(allCount),
                favorites |-> OrZero(favCount),
                recent |-> RecentCount(OrZero(allCount)),
                trash |-> OrZero(trashCount)]
  /\ cntReqs' = RemoveAt(Overtake(cntReqs, i), i)
  /\ UNCHANGED <<cntUserId, projVars, supVars, colVars>>

\* ------------------------------------- page handlers and the sidebar counts
\* the mutations whose page handlers end with refetchCounts()
CountedOps == {"toggle", "trash", "restore", "delete"}

\* Mutant: the handler ends without refreshing the counts.
afterHandlerForgotten(returned, u) == UNCHANGED auxVars

\* await <hook call>; refetchCounts(): once the hook call has returned, the
\* refetchCounts of the render that created the handler (user u) is called
afterHandler(returned, u) ==
  IF returned
  THEN fetchCounts(u) /\ UNCHANGED <<cntUserId, colVars>>
  ELSE UNCHANGED auxVars

\* handleToggleFavorite up to the await inside toggleFavorite, or to its end
\* when toggleFavorite returns at once
handleToggleFavorite(id) ==
  /\ toggleFavoriteCore(id)
  /\ afterHandler(ret'.kind \in CountedOps, userId)

\* the hook call awaited by a page handler resumes with the gateway's answer
PageMutDeliver(i) ==
  /\ MutDeliverCore(i)
  /\ afterHandler(ret'.kind \in CountedOps, muts[i].user)

PageMutFail(i) ==
  /\ MutFailCore(i)
  /\ afterHandler(ret'.kind \in CountedOps, muts[i].user)

\* the reload awaited by a failed trash transition completes
PageFetchDeliver(i) ==
  /\ FetchDeliverCore(i)
  /\ afterHandler(ret'.kind \in CountedOps, fetches[i].user)

PageFetchFail(i) ==
  /\ FetchFailCore(i)
  /\ afterHandler(ret'.kind \in CountedOps, fetches[i].user)

\* handleRealtimeRefetch, the reconciliation callback the page hands to the
\* realtime hook, called on a change event of the subscribed user
handleRealtimeRefetch ==
  /\ userId # NoUser
  /\ RefetchCore
  /\ fetchCounts(userId)
  /\ UNCHANGED <<cntUserId, colVars>>

\* ------------------------------------------------------- useCollections
RECURSIVE SeqOf(_)
\* the rows of a select, as a list
SeqOf(S) == IF S = {} THEN <<>> ELSE LET c == CHOOSE x \in S : TRUE IN <<c>> \o SeqOf(S \ {c})

Range(seq) == {seq[i] : i \in DOMAIN seq}

\* A useCollections gateway call in flight.  members: the bookmarks that were
\* in the collection when deleteCollection was called; reassign: how the
\* update of the member bookmarks ended (history fields, read by no action).
ColReq(op, id, u, members, reassign) ==
  [op |-> op, id |-> id, user |-> u, phase |-> "sent", data |-> <<>>, members |-> members,
   reassign |-> reassign, name |-> NoName, position |-> 0]

MembersOf(s, id) == {b \in DOMAIN s : s[b].coll = id}

\* update({ collection_id: null }).eq('collection_id', id)
Nullified(s, id) ==
  [b \in DOMAIN s |-> IF s[b].coll = id
                      THEN set_deleted_at(s[b], [s[b] EXCEPT !.coll = NoColl])
                      ELSE s[b]]

\* Mutant: the foreign key deletes the member bookmarks with the collection.
OnDeleteCascade(s, id) == [b \in DOMAIN s \ MembersOf(s, id) |-> s[b]]

\* collection_id UUID REFERENCES collections(id) ON DELETE SET NULL
OnDeleteSetNull(s, id) == Nullified(s, id)

PoolIndex(c) == CHOOSE k \in DOMAIN CollPool : CollPool[k] = c

\* the id the table gives the next inserted row
FreshColl == CollPool[Cardinality(DOMAIN collMeta) + 1]

RECURSIVE ByPosition(_)
\* .order('position', { ascending: true })
ByPosition(S) ==
  IF S = {} THEN <<>>
  ELSE LET c == CHOOSE x \in S : \A y \in S :
                  \/ collMeta[x].position < collMeta[y].position
                  \/ /\ collMeta[x].position = collMeta[y].position
                     /\ PoolIndex(x) <= PoolIndex(y)
       IN <<c>> \o ByPosition(S \ {c})

\* creates in flight that the table has not answered yet
PendingCreates ==
  Cardinality({i \in DOMAIN colReqs : colReqs[i].op = "create" /\ colReqs[i].phase = "sent"})

colFrame == <<userId, filter, nextId, items, loading, error, fetches, muts, ret, formErrors,
              supVars, cntVars>>

\* the fetch effect after userId changed
CollUserChange(u) ==
  /\ u # colUserId
  /\ colUserId' = u
  /\ IF u = NoUser
     THEN /\ collections' = <<>>
          /\ colLoading' = FALSE
          /\ colReqs' = colReqs
     ELSE /\ Len(colReqs) < MaxInflight
          /\ collections' = collections
          /\ colLoading' = TRUE
          /\ colReqs' = Append(colReqs, ColReq("fetch", NoColl, u, {}, "none"))
  /\ colRet' = NoColRet
  /\ UNCHANGED <<store, storeColls, colError, collMeta, colFrame>>

\* how a useCollections call, or the dialog in front of it, ended
ColRet(op, outcome, id) ==
  [op |-> op, outcome |-> outcome, id |-> id, members |-> {}, reassign |-> "none"]

\* Math.max(...collections.map(c => c.position)), 0 for an empty list; the
\* position of a listed row is the one the table holds: no update writes it
maxPosition ==
  IF collections = <<>> THEN 0 ELSE Max({collMeta[c].position : c \in Range(collections)})

\* createCollection up to the await of the insert
createCollection(name) ==
  /\ IF colUserId = NoUser
     THEN /\ colError' = NotAuthCollMsg
          /\ colRet' = ColRet("createCollection", "returned", NoColl)
          /\ colReqs' = colReqs
     ELSE /\ Len(colReqs) < MaxInflight
          /\ Cardinality(DOMAIN collMeta) + PendingCreates < MaxColls
          /\ colError' = colError
          /\ colRet' = NoColRet
          /\ colReqs' = Append(colReqs,
                               [ColReq("create", NoColl, colUserId, {}, "none")
                                  EXCEPT !.name = name, !.position = maxPosition + 1])
  /\ UNCHANGED <<store, colUserId, storeColls, collections, colLoading, collMeta, colFrame>>

\* name.trim()
Trimmed(name) == [len |-> name.trimLen, trimLen |-> name.trimLen, text |-> name.text]

\* Mutant: the dialog hands every name to onCreate.
handleCreateUnchecked(name) == createCollection(Trimmed(name))

\* CollectionManager.handleCreate: the checks of the dialog, then onCreate(trimmed)
handleCreate(name) ==
  IF Trimmed(name).len = 0 \/ Trimmed(name).len > MaxCollNameLen
  THEN /\ colRet' = ColRet("handleCreate", "invalid", NoColl)
       /\ UNCHANGED <<store, colUserId, storeColls, collections, colLoading, colError, colReqs,
                      collMeta, colFrame>>
  ELSE createCollection(Trimmed(name))

\* renameCollection up to the await of the update
renameCollection(id, newName) ==
  /\ id \in Range(collections)
  /\ IF colUserId = NoUser
     THEN /\ colRet' = ColRet("renameCollection", "returned", id)
          /\ colReqs' = colReqs
     ELSE /\ Len(colReqs) < MaxInflight
          /\ colRet' = NoColRet
          /\ colReqs' = Append(colReqs, [ColReq("rename", id, colUserId, {}, "none")
                                           EXCEPT !.name = newName])
  /\ UNCHANGED <<store, colUserId, storeColls, collections, colLoading, colError, collMeta,
                 colFrame>>

\* deleteCollection up to the first await (the update of the bookmarks)
deleteCollection(id) ==
  /\ id \in Range(collections)
  /\ IF colUserId = NoUser
     THEN /\ colRet' = ColRet("deleteCollection", "returned", id)
          /\ colReqs' = colReqs
     ELSE /\ Len(colReqs) < MaxInflight
          /\ colRet' = NoColRet
          /\ colReqs' = Append(colReqs, ColReq("nullify", id, colUserId, MembersOf(store, id), "pending"))
  /\ UNCHANGED <<store, colUserId, storeColls, collections, colLoading, colError, collMeta,
                 colFrame>>

\* CHECK (char_length(name) > 0 AND char_length(name) <= 50) and
\* UNIQUE(user_id, name), for a row other than id
NameAccepted(name, id) ==
  /\ name.len > 0
  /\ name.len <= MaxCollNameLen
  /\ \A c \in storeColls \ {id} : collMeta[c].name # name.text

\* The store evaluates call i.
CollServe(i) ==
  /\ colReqs[i].phase = "sent"
  /\ CASE colReqs[i].op = "fetch" ->
            /\ colReqs' = [colReqs EXCEPT ![i].phase = "served", ![i].data = ByPosition(storeColls)]
            /\ UNCHANGED <<store, storeColls, collMeta>>
       [] colReqs[i].op = "nullify" ->
            /\ colReqs' = [colReqs EXCEPT ![i].phase = "served"]
            /\ store' = Nullified(store, colReqs[i].id)
            /\ UNCHANGED <<storeColls, collMeta>>
       [] colReqs[i].op = "create" ->
            IF NameAccepted(colReqs[i].name, NoColl)
            THEN /\ colReqs' = [colReqs EXCEPT ![i].phase = "served", ![i].id = FreshColl]
                 /\ storeColls' = storeColls \cup {FreshColl}
                 /\ collMeta' = collMeta @@ (FreshColl :> [name |-> colReqs[i].name.text,
                                                          position |-> colReqs[i].position])
                 /\ UNCHANGED store
            ELSE /\ colReqs' = [colReqs EXCEPT ![i].phase = "refused"]
                 /\ UNCHANGED <<store, storeColls, collMeta>>
       [] colReqs[i].op = "rename" ->
            IF NameAccepted(colReqs[i].name, colReqs[i].id)
            THEN /\ colReqs' = [colReqs EXCEPT ![i].phase = "served"]
                 /\ collMeta' = IF colReqs[i].id \in storeColls
                                THEN [collMeta EXCEPT ![colReqs[i].id].name = colReqs[i].name.text]
                                ELSE collMeta
                 /\ UNCHANGED <<store, storeColls>>
            ELSE /\ colReqs' = [colReqs EXCEPT ![i].phase = "refused"]
                 /\ UNCHANGED <<store, storeColls, collMeta>>
       [] OTHER ->
            /\ colReqs' = [colReqs EXCEPT ![i].phase = "served"]
            /\ storeColls' = storeColls \ {colReqs[i].id}
            /\ store' = OnDeleteSetNull(store, colReqs[i].id)
            /\ UNCHANGED collMeta
  /\ colRet' = NoColRet
  /\ UNCHANGED <<colUserId, collections, colLoading, colError, colFrame>>

\* deleteCollection after the first await: the result of the update is not
\* read; the delete of the collection row is issued.
IssueDelete(i, reassign) ==
  /\ colReqs' = [colReqs EXCEPT ![i] = ColReq("delete", colReqs[i].id, colReqs[i].user,
                                               colReqs[i].members, reassign)]
  /\ colRet' = NoColRet
  /\ UNCHANGED <<collections, colLoading, colError>>

\* the response of call i arrives without error
CollDeliver(i) ==
  /\ colReqs[i].phase = "served"
  /\ CASE colReqs[i].op = "fetch" ->
            /\ collections' = colReqs[i].data
            /\ colError' = NoError
            /\ colLoading' = FALSE
            /\ colReqs' = RemoveAt(colReqs, i)
            /\ colRet' = NoColRet
       [] colReqs[i].op = "nullify" -> IssueDelete(i, "ok")
       [] colReqs[i].op = "create" ->
            /\ collections' = Append(collections, colReqs[i].id)
            /\ colError' = NoError
            /\ colLoading' = colLoading
            /\ colReqs' = RemoveAt(colReqs, i)
            /\ colRet' = ColRet("createCollection", "resolved", colReqs[i].id)
       [] colReqs[i].op = "rename" ->
            /\ collections' = collections
            /\ colError' = NoError
            /\ colLoading' = colLoading
            /\ colReqs' = RemoveAt(colReqs, i)
            /\ colRet' = ColRet("renameCollection", "resolved", colReqs[i].id)
       [] OTHER ->
            /\ collections' = SelectSeq(collections, LAMBDA c : c # colReqs[i].id)
            /\ colError' = NoError
            /\ colLoading' = colLoading
            /\ colReqs' = RemoveAt(colReqs, i)
            /\ colRet' = [op |-> "deleteCollection", outcome |-> "resolved",
                          id |-> colReqs[i].id, members |-> colReqs[i].members,
                          reassign |-> colReqs[i].reassign]
  /\ UNCHANGED <<store, colUserId, storeColls, collMeta, colFrame>>

\* the name of the call that issued a request of kind op
CallOf(op) ==
  CASE op = "create" -> "createCollection"
    [] op = "rename" -> "renameCollection"
    [] OTHER -> "deleteCollection"

\* call i fails at the gateway, or the table refused it
CollFail(i) ==
  /\ colReqs[i].phase \in {"sent", "refused"}
  /\ CASE colReqs[i].op = "fetch" ->
            /\ collections' = collections
            /\ colError' = GatewayMsg
            /\ colLoading' = FALSE
            /\ colReqs' = RemoveAt(colReqs, i)
            /\ colRet' = NoColRet
       [] colReqs[i].op = "nullify" -> IssueDelete(i, "failed")
       [] OTHER ->
            /\ collections' = collections
            /\ colError' = IF colReqs[i].phase = "refused" THEN DuplicateMsg ELSE GatewayMsg
            /\ colLoading' = colLoading
            /\ colReqs' = RemoveAt(colReqs, i)
            /\ colRet' = [op |-> CallOf(colReqs[i].op), outcome |-> "threw",
                          id |-> colReqs[i].id, members |-> colReqs[i].members,
                          reassign |-> colReqs[i].reassign]
  /\ UNCHANGED <<store, colUserId, storeColls, collMeta, colFrame>>

\* Another session of the same user, its list up to date, creates a collection.
ExtCreate ==
  /\ Cardinality(DOMAIN collMeta) + PendingCreates < MaxColls
  /\ NameAccepted(NExt, NoColl)
  /\ storeColls' = storeColls \cup {FreshColl}
  /\ collMeta' = collMeta @@
       (FreshColl :> [name |-> NExt.text,
                      position |-> IF storeColls = {} THEN 1
                                   ELSE Max({collMeta[c].position : c \in storeColls}) + 1])
  /\ colRet' = NoColRet
  /\ UNCHANGED <<store, colUserId, collections, colLoading, colError, colReqs, colFrame>>

\* ------------------------------- realtime hook as imported by the page
\* hooks/useRealtimeBookmarks.ts: one channel per user id, no status callback,
\* no timers, no visibilitychange listener.

\* const stableRefetch = useCallback(() => { onRefetchRef.current() }, [])
stableRefetch == InvokeRefetch

\* The effect re-runs for user u: the cleanup of the previous run
\* (removeChannel), then channel(...).on(...).subscribe() if u is present.
HookEffect(u) ==
  /\ supUserId' = u
  /\ openChannels' = ChannelsAfterCleanup + (IF u # NoUser THEN 1 ELSE 0)
  /\ chanStatus' = IF u # NoUser THEN "joining" ELSE "none"
  /\ staleEffects' = (staleEffects \/ supUserId # NoUser)
  /\ NoRefetch
  /\ UNCHANGED <<realtimeConnected, pollInterval, pollTimers, connTimeout, pendingTimeouts>>

HookUserChange(u) ==
  /\ u # supUserId
  /\ HookEffect(u)
  /\ UNCHANGED <<visible, onRefetch, onRefetchRef, projVars, auxVars>>

\* the component unmounts and a new instance mounts with user u
HookRemount(u) ==
  /\ HookEffect(u)
  /\ onRefetchRef' = RefAfterRender(onRefetch)
  /\ UNCHANGED <<visible, onRefetch, projVars, auxVars>>

\* the channel changes status; .subscribe() was given no callback
HookChannelStatus(status) ==
  /\ supUserId # NoUser
  /\ chanStatus \notin {"none", "CLOSED"}
  /\ chanStatus' = status
  /\ NoRefetch
  /\ UNCHANGED <<supUserId, openChannels, realtimeConnected, pollInterval, pollTimers,
                 connTimeout, visible, pendingTimeouts, onRefetch, onRefetchRef,
                 staleEffects, projVars, auxVars>>

\* a postgres_changes event is delivered on the joined channel
HookChangeEvent ==
  /\ supUserId # NoUser
  /\ chanStatus = "SUBSCRIBED"
  /\ stableRefetch
  /\ UNCHANGED <<supUserId, openChannels, chanStatus, realtimeConnected, pollInterval,
                 pollTimers, connTimeout, visible, pendingTimeouts, onRefetch,
                 onRefetchRef, staleEffects, projVars, auxVars>>

\* the tab is hidden or shown; the hook registers no listener
HookVisibilityChange ==
  /\ visible' = ~visible
  /\ NoRefetch
  /\ UNCHANGED <<supUserId, openChannels, chanStatus, realtimeConnected, pollInterval,
                 pollTimers, connTimeout, pendingTimeouts, onRefetch, onRefetchRef,
                 staleEffects, projVars, auxVars>>

\* ----------------------------------------------------------- specifications
\* Loads: sign-in/out, filter changes, reconciliation and the reads they issue.
Loads ==
  \/ \E u \in Users : Login(u)
  \/ Logout
  \/ \E f \in Filters : SetFilter(f)
  \/ Refetch
  \/ \E i \in DOMAIN fetches : FetchServe(i)
  \/ \E i \in DOMAIN fetches : FetchDeliver(i)
  \/ \E i \in DOMAIN fetches : FetchFail(i)

\* Gateway: the store applies a mutation, and its response (or failure) arrives.
Gateway ==
  \/ \E i \in DOMAIN muts : MutServe(i)
  \/ \E i \in DOMAIN muts : MutDeliver(i)
  \/ \E i \in DOMAIN muts : MutFail(i)

\* Loads alone, over a store other sessions fill.
NextLoad ==
  \/ Loads
  \/ \E c \in Collections \cup {NoColl} : ExtInsert(c)

SpecLoad == Init /\ [][NextLoad]_vars

\* Loads over a table that holds more rows than the 'recent' limit.
SpecQuery == InitQuery /\ [][Loads]_vars

\* Favorite toggles interleaved with loads.
NextToggle ==
  \/ Loads
  \/ Gateway
  \/ ExtInsert(NoColl)
  \/ \E id \in Ids : toggleFavorite(id)

SpecToggle == Init /\ [][NextToggle]_vars

\* Trash transitions interleaved with loads.
NextTrash ==
  \/ Loads
  \/ Gateway
  \/ ExtInsert(NoColl)
  \/ \E id \in IdsOf(items) : handleDelete(id)
  \/ \E id \in IdsOf(items) : handleRestore(id)
  \/ \E id \in IdsOf(items) : handlePermanentDelete(id)

SpecTrash == Init /\ [][NextTrash]_vars

\* the views the store specification switches between
StoreViews == {"all", "trash"}

\* Every operation that writes a bookmark row, with the loads that fill the list.
NextStore ==
  \/ \E u \in Users : Login(u)
  \/ \E f \in StoreViews : SetFilter(f)
  \/ \E i \in DOMAIN fetches : FetchServe(i)
  \/ \E i \in DOMAIN fetches : FetchDeliver(i)
  \/ Gateway
  \/ handleDrop(TOk, UHttps)
  \/ \E id \in IdsOf(items) : toggleFavorite(id)
  \/ \E id \in IdsOf(items) : handleDelete(id)
  \/ \E id \in IdsOf(items) : handleRestore(id)
  \/ \E id \in IdsOf(items), c \in Collections : handleMoveToCollection(id, c)

SpecStore == Init /\ [][NextStore]_vars

\* the row the other session deletes
GoneId == 1

\* Mutations of listed rows that another session deletes meanwhile.
NextGone ==
  \/ \E u \in Users : Login(u)
  \/ \E f \in StoreViews : SetFilter(f)
  \/ \E i \in DOMAIN fetches : FetchServe(i)
  \/ \E i \in DOMAIN fetches : FetchDeliver(i)
  \/ Gateway
  \/ ExtInsert(NoColl)
  \/ ExtDelete(GoneId)
  \/ toggleFavorite(GoneId)
  \/ \E id \in IdsOf(items) : handleDelete(id)
  \/ \E id \in IdsOf(items) : handleRestore(id)
  \/ \E id \in IdsOf(items), c \in Collections : handleMoveToCollection(id, c)

SpecGone == Init /\ [][NextGone]_vars

\* Collection moves interleaved with loads.
NextMove ==
  \/ Loads
  \/ Gateway
  \/ ExtInsert(NoColl)
  \/ \E id \in IdsOf(items), c \in Collections \cup {NoColl} : handleMoveToCollection(id, c)

SpecMove == Init /\ [][NextMove]_vars

\* The add entry points (dialog and drag-and-drop) interleaved with loads.
NextAdd ==
  \/ Loads
  \/ Gateway
  \/ \E t \in Titles, u \in Urls, c \in Collections \cup {NoColl} : SubmitDialog(t, u, c)
  \/ \E t \in Titles, u \in Urls : handleDrop(t, u)

SpecAdd == Init /\ [][NextAdd]_vars

\* The realtime supervisor.
NextSup ==
  \/ \E u \in SupUsers \cup {NoUser} : UserChange(u)
  \/ \E u \in SupUsers \cup {NoUser} : Remount(u)
  \/ Rerender
  \/ \E st \in Statuses : StatusCallback(st)
  \/ ConnectionTimeout
  \/ PollTick
  \/ ChangeEvent
  \/ LateChangeEvent
  \/ \E st \in Statuses : LateStatus(st)
  \/ VisibilityChange

SpecSup == Init /\ [][NextSup]_vars

\* The sidebar counts.  The page calls refetchCounts after every mutation
\* handler and from the reconciliation callback; counts never flow back into
\* the projection, so here the refresh may be requested at any time.
NextCounts ==
  \/ \E u \in Users \cup {NoUser} : CountsUserChange(u)
  \/ refetchCounts
  \/ \E i \in DOMAIN cntReqs : \E a, f, t \in CountSamples \cup {NoCount} :
       CountsRespond(i, a, f, t)

SpecCounts == Init /\ [][NextCounts]_vars

\* rows of the table the page handlers work on
PageRows == 1

\* The page handlers of the counted mutations together with the counts hook.
NextPage ==
  \/ \E u \in Users : Login(u)
  \/ \E u \in Users : CountsUserChange(u)
  \/ \E f \in StoreViews : SetFilter(f)
  \/ \E i \in DOMAIN fetches : FetchServe(i)
  \/ \E i \in DOMAIN fetches : PageFetchDeliver(i)
  \/ \E i \in DOMAIN fetches : PageFetchFail(i)
  \/ \E i \in DOMAIN muts : MutServe(i)
  \/ \E i \in DOMAIN muts : PageMutDeliver(i)
  \/ \E i \in DOMAIN muts : PageMutFail(i)
  \/ \E id \in IdsOf(items) : handleToggleFavorite(id)
  \/ \E id \in IdsOf(items) : handleDelete(id)
  \/ \E id \in IdsOf(items) : handleRestore(id)
  \/ \E id \in IdsOf(items) : handlePermanentDelete(id)
  \/ \E i \in DOMAIN cntReqs : CountsRespond(i, 1, 0, 0)

InitPage == InitWith(StoreOf(PageRows, 0, 0, 0))

SpecPage == InitPage /\ [][NextPage]_vars

\* The reconciliation callback with the three hooks of the page.
NextReconcile ==
  \/ \E u \in Users : Login(u)
  \/ \E u \in Users : CountsUserChange(u)
  \/ \E u \in Users : CollUserChange(u)
  \/ ExtInsert(NoColl)
  \/ ExtCreate
  \/ handleRealtimeRefetch
  \/ \E i \in DOMAIN fetches : FetchServe(i)
  \/ \E i \in DOMAIN fetches : FetchDeliver(i)
  \/ \E i \in DOMAIN cntReqs : CountsRespond(i, 1, 0, 0)
  \/ \E i \in DOMAIN colReqs : CollServe(i)
  \/ \E i \in DOMAIN colReqs : CollDeliver(i)

SpecReconcile == Init /\ [][NextReconcile]_vars

\* Adds under the 'recent' view of a table that holds RecentLimit rows.
RecentViews == {"all", "recent"}

InitRecent == InitWith(StoreOf(RecentLimit, 0, 0, 0))

NextRecent ==
  \/ \E u \in Users : Login(u)
  \/ \E f \in RecentViews : SetFilter(f)
  \/ \E i \in DOMAIN fetches : FetchServe(i)
  \/ \E i \in DOMAIN fetches : FetchDeliver(i)
  \/ Gateway
  \/ handleDrop(TOk, UHttps)

SpecRecent == InitRecent /\ [][NextRecent]_vars

\* Bookmarks filed into collections while collections are deleted.
NextRef ==
  \/ \E u \in Users : Login(u)
  \/ \E u \in Users : CollUserChange(u)
  \/ \E i \in DOMAIN fetches : FetchServe(i)
  \/ \E i \in DOMAIN fetches : FetchDeliver(i)
  \/ Gateway
  \/ \E c \in Collections : SubmitDialog(TOk, UHttps, c)
  \/ \E id \in IdsOf(items), c \in Range(collections) : handleMoveToCollection(id, c)
  \/ \E c \in Collections : ExtInsert(c)
  \/ \E id \in Collections : deleteCollection(id)
  \/ \E i \in DOMAIN colReqs : CollServe(i)
  \/ \E i \in DOMAIN colReqs : CollDeliver(i)

SpecRef == InitPage /\ [][NextRef]_vars

\* The collection directory, over a store other sessions fill.
NextColl ==
  \/ \E u \in Users \cup {NoUser} : CollUserChange(u)
  \/ \E id \in Collections : deleteCollection(id)
  \/ \E i \in DOMAIN colReqs : CollServe(i)
  \/ \E i \in DOMAIN colReqs : CollDeliver(i)
  \/ \E i \in DOMAIN colReqs : CollFail(i)
  \/ \E c \in Collections \cup {NoColl} : ExtInsert(c)

SpecColl == Init /\ [][NextColl]_vars

\* Collection creation, with another session creating collections too.
NextCreate ==
  \/ \E u \in Users \cup {NoUser} : CollUserChange(u)
  \/ \E name \in CollNames : handleCreate(name)
  \/ \E i \in DOMAIN colReqs : CollServe(i)
  \/ \E i \in DOMAIN colReqs : CollDeliver(i)
  \/ \E i \in DOMAIN colReqs : CollFail(i)
  \/ ExtCreate

SpecCreate == Init /\ [][NextCreate]_vars

\* The calls that need a user id, with sign-in and sign-out of the collection
\* directory; the bookmark projection stays signed out.
NextAuth ==
  \/ \E u \in Users \cup {NoUser} : CollUserChange(u)
  \/ handleDrop(TOk, UHttps)
  \/ handleCreate(NOk)
  \/ \E id \in Collections : renameCollection(id, NOk)
  \/ \E id \in Collections : deleteCollection(id)
  \/ \E i \in DOMAIN colReqs : CollServe(i)
  \/ \E i \in DOMAIN colReqs : CollDeliver(i)
  \/ \E i \in DOMAIN colReqs : CollFail(i)

SpecAuth == Init /\ [][NextAuth]_vars

\* The realtime hook as imported by the page.
NextHook ==
  \/ \E u \in SupUsers \cup {NoUser} : HookUserChange(u)
  \/ \E u \in SupUsers \cup {NoUser} : HookRemount(u)
  \/ Rerender
  \/ \E st \in Statuses : HookChannelStatus(st)
  \/ HookChangeEvent
  \/ HookVisibilityChange

SpecHook == Init /\ [][NextHook]_vars

\* The supervisor with its timers: a pending setTimeout fires, and a running
\* setInterval keeps firing.
SpecSupLive == SpecSup /\ WF_vars(ConnectionTimeout) /\ WF_vars(PollTick)

\* ------------------------------------------------------------------ claims
RemoveOps == {"trash", "restore", "delete"}

\* is_favorite of every entry of seq that carries id
FavsOf(seq, id) == {seq[k].fav : k \in {j \in DOMAIN seq : seq[j].id = id}}

\* C1: the response of a read that is no longer the most recently issued load
\* is discarded on arrival: items are only ever replaced by the response of
\* the most recently issued load.
C1_StaleResponseDiscarded ==
  [][\A i \in DOMAIN fetches :
       (FetchDeliver(i) \/ FetchFail(i)) => ~fetches[i].stale]_vars

\* C2: toggleFavorite flips the local flag before the update is issued; when
\* the gateway confirms, the listed item's is_favorite equals the toggled
\* value; when it fails, it equals the pre-toggle value and the call returns
\* success=false with the gateway's message.  Stated for a toggle that is the
\* only one in flight for its item.
C2_ToggleFinalValue ==
  [][/\ \A id \in IdsOf(items) : toggleFavorite(id) =>
          FavsOf(items', id) = {~items[FindIndex(items, id)].fav}
     /\ \A i \in DOMAIN muts :
          (/\ muts[i].op = "toggle"
           /\ \A j \in DOMAIN muts \ {i} : ~(muts[j].op = "toggle" /\ muts[j].id = muts[i].id))
          => /\ MutDeliver(i) => FavsOf(items', muts[i].id) \subseteq {muts[i].val}
             /\ MutFail(i) => /\ FavsOf(items', muts[i].id) \subseteq {~muts[i].val}
                              /\ ret' = Fail("toggle", GatewayMsg)]_vars

\* C3 (as claimed): under favorites, a toggle that unfavorites a listed item
\* removes it from items in the optimistic step, before the gateway responds.
C3_RemovedInOptimisticPhase ==
  [][\A id \in IdsOf(items) \cap DOMAIN store :
       (/\ userId # NoUser
        /\ filter = "favorites"
        /\ store[id].fav
        /\ items[FindIndex(items, id)].fav
        /\ toggleFavorite(id))
         => id \notin IdsOf(items')]_vars

\* C3 (amended): under favorites, a toggle that unfavorites a listed item
\* keeps it listed with is_favorite=false through the optimistic phase; the
\* item is removed from items when the gateway confirms the update with
\* favorites still the active view, and is not removed when the gateway fails.
C3_RemovedOnConfirmation ==
  [][/\ \A id \in IdsOf(items) :
          (filter = "favorites" /\ items[FindIndex(items, id)].fav /\ toggleFavorite(id))
            => FavsOf(items', id) = {FALSE}
     /\ \A i \in DOMAIN muts :
          (/\ muts[i].op = "toggle"
           /\ muts[i].filter = "favorites"
           /\ filter = "favorites"
           /\ ~muts[i].val) =>
            /\ MutDeliver(i) => muts[i].id \notin IdsOf(items')
            /\ MutFail(i) => IdsOf(items') = IdsOf(items)]_vars

\* C3 witness: the favorites view just dropped an item whose unfavoriting the
\* gateway confirmed.
C3_Witness ==
  /\ ret = Ok("toggle")
  /\ filter = "favorites"
  /\ \E id \in DOMAIN store : ~store[id].fav /\ ~store[id].deleted /\ id \notin IdsOf(items)

\* Membership of a freshly inserted row (not deleted, not favorite) of
\* collection coll in the view f, as the claim spells it out.
FreshRowVisible(f, coll) == f \in {"all", "recent"} \/ (f \in Collections /\ coll = f)

\* C4: after a successful addBookmark the created row is prepended at index 0
\* of items iff it satisfies the membership predicate of the ViewSpec that is
\* active when the insert response arrives; otherwise items is unchanged.
C4_PrependUnderActiveView ==
  [][\A i \in DOMAIN muts : (muts[i].op = "add" /\ MutDeliver(i)) =>
       items' = IF FreshRowVisible(filter, muts[i].coll)
                THEN <<[id |-> muts[i].id, fav |-> FALSE]>> \o items
                ELSE items]_vars

\* C5: no gateway insert is ever issued for a title that is empty or longer
\* than 500 characters, or for a URL that is not http/https, on any path that
\* reaches addBookmark (add dialog and drag-and-drop).
C5_NoInsertOfInvalidInput ==
  \A i \in DOMAIN muts : muts[i].op = "add" =>
    /\ muts[i].title.len > 0
    /\ muts[i].title.len <= 500
    /\ muts[i].url.parses
    /\ muts[i].url.protocol \in {"http:", "https:"}

\* C6: when the gateway mutation of moveToTrash, restoreFromTrash or
\* permanentDelete fails, a reload of the ViewSpec current at that moment is
\* issued; when that reload completes the call returns success=false and
\* items equals the store's rows for the active ViewSpec.  Stated for a
\* session that is still signed in when the failure arrives.
C6_FailureReloadsCurrentView ==
  [][/\ \A i \in DOMAIN muts :
          (muts[i].op \in RemoveOps /\ userId # NoUser /\ MutFail(i)) =>
            /\ Len(fetches') = Len(fetches) + 1
            /\ fetches'[Len(fetches')].filter = filter
            /\ fetches'[Len(fetches')].user = userId
     /\ \A j \in DOMAIN fetches :
          (fetches[j].cont.op \in RemoveOps /\ userId # NoUser /\ FetchDeliver(j)) =>
            /\ ret' = Fail(fetches[j].cont.op, GatewayMsg)
            /\ items' = Query(store, filter)]_vars

\* C7: moveToTrash, restoreFromTrash and permanentDelete remove id from items
\* in the step that issues the mutation, and on gateway success return
\* success=true with id absent from items.
C7_AbsentOnSuccess ==
  [][/\ \A id \in IdsOf(items) :
          (handleDelete(id) \/ handleRestore(id) \/ handlePermanentDelete(id)) =>
            id \notin IdsOf(items')
     /\ \A i \in DOMAIN muts : (muts[i].op \in RemoveOps /\ MutDeliver(i)) =>
          /\ ret' = Ok(muts[i].op)
          /\ muts[i].id \notin IdsOf(items')]_vars

\* C8: at every moment at most one realtime subscription is open, exactly
\* when a user id is present: a re-activation removes the previous channel
\* before the new one is opened.
C8_SingleSubscription ==
  /\ openChannels <= 1
  /\ openChannels = 1 <=> supUserId # NoUser

\* C8 witness: the supervisor was re-activated for another user after a Live
\* session (the ref still says connected) and holds one joining channel.
C8_Witness ==
  /\ supUserId = "u2"
  /\ realtimeConnected
  /\ chanStatus = "joining"
  /\ openChannels = 1

\* C9: if the subscription has not been confirmed SUBSCRIBED when the 10 s
\* connection timeout fires, fallback polling is active from that moment on.
C9_TimeoutStartsPolling ==
  [][(ConnectionTimeout /\ supUserId # NoUser /\ chanStatus # "SUBSCRIBED")
       => pollInterval']_vars

\* C10: whenever the open subscription reports CHANNEL_ERROR, TIMED_OUT or an
\* unexpected CLOSED, the supervisor leaves Live and fallback polling is
\* active afterwards.
C10_FailureStartsPolling ==
  [][\A st \in {"CHANNEL_ERROR", "TIMED_OUT", "CLOSED"} :
       StatusCallback(st) => (~realtimeConnected' /\ pollInterval')]_vars

\* C11: whenever the channel is confirmed Live (its last reported status is
\* SUBSCRIBED) no fallback poll timer is running: SUBSCRIBED cancels active
\* polling and polling is never started while the channel is Live.
C11_LiveMeansNoPolling ==
  chanStatus = "SUBSCRIBED" => (~pollInterval /\ pollTimers = 0)

\* C11 witness: the channel is Live after its connection timeout has fired -
\* either polling had been started and SUBSCRIBED cancelled it, or the timeout
\* found the channel connected - and nothing polls.
C11_Witness ==
  /\ chanStatus = "SUBSCRIBED"
  /\ connTimeout = "fired"
  /\ realtimeConnected
  /\ pollTimers = 0

\* C12: after deactivation (the user id becomes null or changes, or the
\* component unmounts), from any supervisor state, no poll timer and no
\* connection timeout of the deactivated run remain pending and its
\* subscription is closed: only the timer and the channel of the new run, if
\* there is one, exist.
C12_TeardownCancelsEverything ==
  /\ [](supUserId = NoUser =>
          (pollTimers = 0 /\ ~pollInterval /\ pendingTimeouts = 0 /\ openChannels = 0))
  /\ [][\A u \in SupUsers \cup {NoUser} : (UserChange(u) \/ Remount(u)) =>
          /\ pollTimers' = 0
          /\ ~pollInterval'
          /\ pendingTimeouts' = (IF u = NoUser THEN 0 ELSE 1)
          /\ openChannels' = (IF u = NoUser THEN 0 ELSE 1)]_vars

\* C12 witness: the supervisor was deactivated while its channel was Live (the
\* ref of the instance still says connected) and nothing is left behind.
C12_Witness ==
  /\ supUserId = NoUser
  /\ staleEffects
  /\ realtimeConnected
  /\ pollTimers = 0
  /\ pendingTimeouts = 0
  /\ openChannels = 0

\* the supervisor is active for a user and its channel is not Live
Degraded == supUserId # NoUser /\ chanStatus # "SUBSCRIBED"

\* C13: while the supervisor is active and the channel is not Live,
\* reconciliation keeps happening: from every such state whose connection
\* timeout has elapsed, the reconciliation callback is eventually invoked,
\* unless the channel becomes Live, or the supervisor is deactivated or
\* activated again (which starts a new timeout), first.
C13_DegradedKeepsReconciling ==
  (Degraded /\ connTimeout = "fired")
    ~> (refetched = 1 \/ ~Degraded \/ connTimeout = "pending")

\* C14: every transition of the tab to the foreground invokes the
\* reconciliation callback exactly once, whatever the channel state.
C14_ForegroundReconciles ==
  [][(~visible /\ visible') => (refetched' = 1 /\ called' = onRefetchRef)]_vars

C16_FailedRefreshKeepsCounts ==
  [][\A i \in DOMAIN cntReqs : \A a, f, t \in CountSamples \cup {NoCount} :
       (NoCount \in {a, f, t} /\ CountsRespond(i, a, f, t)) => counts' = counts]_vars

C18_DeleteKeepsMembers ==
  [][(colRet'.op = "deleteCollection" /\ colRet'.outcome = "resolved") =>
       /\ \A b \in colRet'.members : b \in DOMAIN store' /\ store'[b].coll = NoColl
       /\ colRet'.id \notin storeColls'
       /\ colRet'.id \notin Range(collections')]_vars

C18_Witness ==
  /\ colRet.op = "deleteCollection"
  /\ colRet.outcome = "resolved"
  /\ colRet.members # {}
  /\ \A b \in colRet.members : b \in DOMAIN store /\ store[b].coll = NoColl
  /\ colRet.id \notin storeColls
  /\ colRet.id \notin Range(collections)

\* C19: the delete of the collection row is issued only after the update that
\* sets collection_id to null on the member bookmarks has succeeded; when that
\* update fails, the collection row stays and deleteCollection throws.
C19_DeleteOnlyAfterReassign ==
  /\ \A i \in DOMAIN colReqs : colReqs[i].op = "delete" => colReqs[i].reassign = "ok"
  /\ (colRet.op = "deleteCollection" /\ colRet.reassign = "failed") =>
       (colRet.outcome = "threw" /\ colRet.id \in storeColls)

\* ------------------------------------------------------ collection moves
\* C20: when the gateway update of moveToCollection succeeds and when it
\* fails, a reload of the ViewSpec current at that moment is issued.  Stated
\* for a session that is still signed in when the response arrives.
C20_MoveAlwaysReloadsCurrentView ==
  [][\A i \in DOMAIN muts :
       (muts[i].op = "move" /\ userId # NoUser /\ (MutDeliver(i) \/ MutFail(i))) =>
         /\ Len(fetches') = Len(fetches) + 1
         /\ fetches'[Len(fetches')].filter = filter
         /\ fetches'[Len(fetches')].user = userId]_vars

\* ------------------------------------------------------ overlapping toggles
\* C21: when the last gateway response of two overlapping toggleFavorite
\* calls on the same id arrives, the is_favorite of the listed item equals the
\* is_favorite the store holds for that row.
C21_OverlappingTogglesConverge ==
  [][\A i \in DOMAIN muts :
       (/\ muts[i].op = "toggle"
        /\ muts[i].overlap
        /\ \A j \in DOMAIN muts \ {i} : ~SameToggle(muts[j], muts[i].id)
        /\ muts[i].id \in DOMAIN store
        /\ (MutDeliver(i) \/ MutFail(i)))
         => FavsOf(items', muts[i].id) \subseteq {store'[muts[i].id].fav}]_vars

\* ---------------------------------------------------------- trash stamps
\* C22: in every store state reached by addBookmark, moveToTrash,
\* restoreFromTrash, toggleFavorite and moveToCollection calls, successful or
\* failed, each bookmark row has deleted_at non-null iff is_deleted is true.
C22_DeletedAtIffDeleted ==
  \A id \in DOMAIN store : (store[id].deletedAt # NoStamp) <=> store[id].deleted

\* a row went to the trash and came back, another one is in the trash, after a
\* mutation failed
C22_Witness ==
  /\ \E id \in DOMAIN store : store[id].deleted /\ store[id].deletedAt = Stamp
  /\ \E id \in DOMAIN store : ~store[id].deleted /\ store[id].fav /\ store[id].deletedAt = NoStamp
  /\ ret.kind = "restore"
  /\ ret.success

\* ---------------------------------------------------------- bucket loads
\* the rows of table s that belong to bucket f
InBucket(s, f) ==
  {id \in DOMAIN s :
     CASE f = "all" -> s[id].deleted = FALSE
       [] f = "favorites" -> s[id].deleted = FALSE /\ s[id].fav = TRUE
       [] f = "recent" -> s[id].deleted = FALSE
       [] f = "trash" -> s[id].deleted = TRUE
       [] OTHER -> s[id].deleted = FALSE /\ s[id].coll = f}

\* rows lists bucket f of table s: members only, each once, newest first, all
\* of them or, for recent, the newest RecentLimit of them
IsBucketListing(rows, s, f) ==
  /\ IdsOf(rows) \subseteq InBucket(s, f)
  /\ \A i, j \in DOMAIN rows : i < j => rows[i].id > rows[j].id
  /\ \A i \in DOMAIN rows : rows[i].fav = s[rows[i].id].fav
  /\ IF f = "recent"
     THEN /\ Len(rows) <= RecentLimit
          /\ Len(rows) = RecentLimit \/ IdsOf(rows) = InBucket(s, f)
          /\ \A id \in InBucket(s, f) \ IdsOf(rows) : \A i \in DOMAIN rows : id < rows[i].id
     ELSE IdsOf(rows) = InBucket(s, f)

C24_LoadCompletion ==
  [][\A i \in DOMAIN fetches :
       /\ FetchDeliver(i) => (~loading' /\ items' = fetches[i].data /\ error' = NoError)
       /\ FetchFail(i) => (~loading' /\ items' = <<>> /\ error' = GatewayMsg)]_vars

\* a load failed over a table that holds rows of the active view
C24_Witness ==
  /\ userId # NoUser
  /\ fetches = <<>>
  /\ ~loading
  /\ items = <<>>
  /\ error = GatewayMsg
  /\ Query(store, filter) # <<>>

\* ------------------------------------------------------ collection order
\* C25: the rows of the collections table have pairwise distinct positions
\* that increase in creation order, whatever creates overlap and whatever
\* other sessions create.
C25_PositionsDistinctAndOrdered ==
  \A a, b \in storeColls :
    PoolIndex(a) < PoolIndex(b) => collMeta[a].position < collMeta[b].position

\* -------------------------------------------------------- collection names
\* C26: creating a collection whose name (as the dialog hands it on, that is
\* after trim()) is empty or longer than MaxCollNameLen characters is
\* rejected: no gateway insert is issued, and neither the collections table
\* nor the local collections list changes.
C26_InvalidNameRejected ==
  [][\A name \in CollNames :
       (handleCreate(name) /\ (name.trimLen = 0 \/ name.trimLen > MaxCollNameLen)) =>
         /\ colReqs' = colReqs
         /\ storeColls' = storeColls
         /\ collMeta' = collMeta
         /\ collections' = collections
         /\ colRet'.outcome = "invalid"]_vars

\* the dialog refused a name while the user was signed in with the list loaded
C26_Witness ==
  /\ colRet.op = "handleCreate"
  /\ colRet.outcome = "invalid"
  /\ colUserId # NoUser
  /\ collections # <<>>
  /\ colReqs = <<>>

\* -------------------------------------------------------- missing user id
\* C27: with no user id present, addBookmark, createCollection,
\* renameCollection and deleteCollection each issue no gateway call and
\* report a not-authenticated failure to their caller.
C27_NoUserIsReported ==
  [][/\ (userId = NoUser /\ handleDrop(TOk, UHttps)) =>
          (muts' = muts /\ ret' = Fail("add", NotAuthMsg))
     /\ (colUserId = NoUser /\ handleCreate(NOk)) =>
          (colReqs' = colReqs /\ colRet'.outcome = "threw")
     /\ \A id \in Collections :
          (colUserId = NoUser /\ (renameCollection(id, NOk) \/ deleteCollection(id))) =>
            (colReqs' = colReqs /\ colRet'.outcome = "threw")]_vars

\* ------------------------------------------------------------ missing rows
\* C28: toggleFavorite, moveToTrash, restoreFromTrash, permanentDelete and
\* moveToCollection on a bookmark id that no longer exists (absent from the
\* local list, or removed from the store by another session before the store
\* evaluates the call) return success=false with a not-found error.
C28_MissingRowIsNotFound ==
  [][/\ \A id \in Ids \ IdsOf(items) :
          toggleFavorite(id) => ret' = Fail("toggle", NotFoundMsg)
     /\ \A i \in DOMAIN muts :
          (muts[i].phase = "applied" /\ ~muts[i].found /\ MutDeliver(i)) =>
            ret' = Fail(muts[i].op, NotFoundMsg)]_vars

\* ------------------------------------------------- counts after a mutation
\* a refresh of the counts is issued for user u in this step
RefreshIssued(u) ==
  IF u = NoUser THEN counts' = ZeroCounts /\ cntReqs' = cntReqs
  ELSE cntReqs' = Append(cntReqs, CntReq(u))

\* C29: the page handlers of toggleFavorite, moveToTrash, restoreFromTrash and
\* permanentDelete issue a refresh of the counts when the hook call they await
\* returns, which is after the gateway response of the mutation (and after the
\* reload that follows a failed trash transition); the step that issues the
\* mutation issues no refresh.
C29_CountsRefreshedAfterResponse ==
  [][/\ \A i \in DOMAIN muts :
          (muts[i].op \in CountedOps /\ (PageMutDeliver(i) \/ PageMutFail(i))) =>
            IF muts[i].op = "toggle" \/ muts[i].phase = "applied" \/ muts[i].user = NoUser
            THEN RefreshIssued(muts[i].user)
            ELSE cntReqs' = cntReqs
     /\ \A j \in DOMAIN fetches :
          (fetches[j].cont.op \in CountedOps /\ (PageFetchDeliver(j) \/ PageFetchFail(j))) =>
            RefreshIssued(fetches[j].user)
     /\ (Len(muts') > Len(muts)) => cntReqs' = cntReqs]_vars

\* a refresh issued by a handler is in flight with no mutation pending, after
\* a trash transition succeeded
C29_Witness ==
  /\ ret = Ok("trash")
  /\ muts = <<>>
  /\ cntReqs # <<>>
  /\ cntUserId # NoUser
  /\ \E id \in DOMAIN store : store[id].deleted

\* ------------------------------------------------- reconciliation signal
\* C30: on every realtime change event the reconciliation callback issues a
\* reload of the bookmark projection, a refresh of the bucket counts and a
\* fetch of the collections.
C30_ReconcilesAllThree ==
  [][handleRealtimeRefetch =>
       /\ Len(fetches') = Len(fetches) + 1
       /\ cntReqs' = Append(cntReqs, CntReq(userId))
       /\ Len(colReqs') = Len(colReqs) + 1
       /\ colReqs'[Len(colReqs')].op = "fetch"]_vars

\* ------------------------------------------------------- duplicate rows
\* C31: in every reachable state items holds no two entries with the same
\* bookmark id, also when a reload whose response already contains the new
\* row interleaves with the prepend of addBookmark.
C31_NoDuplicateIds ==
  \A i, j \in DOMAIN items : items[i].id = items[j].id => i = j

\* ------------------------------------------------------------ ownership
\* C32: every row in items belongs to the current user id, and whenever the
\* user id is null items is empty, also when a load issued for the previous
\* user is still in flight at sign-out.  (The store holds the rows of the
\* users in Users, so a listed row has an owner exactly when a user is
\* signed in.)
C32_ItemsBelongToUser ==
  /\ userId = NoUser => items = <<>>
  /\ \A i \in DOMAIN items : userId \in Users

\* ----------------------------------------------------------- quiescence
\* No gateway call is in flight.  Under a specification whose store never
\* changes there is no change event either, delivered or pending.
Quiescent == fetches = <<>> /\ muts = <<>>

\* C33: whenever the system is quiescent, items equals the store's current
\* result for the active view (nothing for a signed-out user).  A state whose
\* last load failed shows the error instead of rows and is left aside.
C33_QuiescentMatchesStore ==
  (Quiescent /\ error = NoError) =>
    items = IF userId = NoUser THEN <<>> ELSE Query(store, filter)

\* ---------------------------------------------------------- hard delete
\* C34: a bookmark row leaves the store only through a permanentDelete, and
\* every permanentDelete issued through the page's handlers (from a rendered
\* card, i.e. while the list is not loading) targets a row whose is_deleted
\* is true in the store at the time the delete is issued.
C34_OnlyTrashedRowsAreDestroyed ==
  [][/\ (DOMAIN store' # DOMAIN store /\ DOMAIN store' \subseteq DOMAIN store)
          => \E i \in DOMAIN muts : muts[i].op = "delete" /\ MutServe(i)
     /\ \A id \in IdsOf(items) :
          (/\ ~loading
           /\ handleDelete(id) \/ handlePermanentDelete(id)
           /\ muts'[Len(muts')].op = "delete")
          => (id \in DOMAIN store /\ store[id].deleted)]_vars

\* ------------------------------------------------ references to collections
\* C35: in every reachable store state no bookmark's collection_id refers to
\* a collection that does not exist, also when a moveToCollection(id, C) or
\* an addBookmark into C is applied between the two steps of
\* deleteCollection(C).
C35_NoDanglingCollection ==
  \A b \in DOMAIN store : store[b].coll = NoColl \/ store[b].coll \in storeColls

\* the first step of deleteCollection(C) has emptied C, its second step is
\* pending, and a call of this session has filed a row into C meanwhile
C35_Witness ==
  \E i \in DOMAIN colReqs, j \in DOMAIN muts :
    /\ colReqs[i].op = "delete"
    /\ colReqs[i].phase = "sent"
    /\ colReqs[i].reassign = "ok"
    /\ muts[j].op \in {"move", "add"}
    /\ muts[j].phase = "applied"
    /\ muts[j].coll = colReqs[i].id
    /\ store[muts[j].id].coll = colReqs[i].id

\* ------------------------------------------------------- the recent cap
\* C36: while the active view is 'recent', items never holds more than 10
\* rows, also directly after the insert of addBookmark.  The rows of the
\* previous view, kept while the load of a view switch is pending and hidden
\* behind the loading placeholder, are left aside.
C36_RecentNeverExceedsLimit ==
  (filter = "recent" /\ ~loading) => Len(items) <= RecentLimit

\* --------------------------------------------------- overlapping refreshes
\* C37: when several refreshes of the counts overlap, the answer of a
\* refresh that a later-issued refresh has overtaken is never written over
\* the later one's result.
C37_LatestRefreshWins ==
  [][\A i \in DOMAIN cntReqs : \A a, f, t \in CountSamples \cup {NoCount} :
       CountsRespond(i, a, f, t) => ~cntReqs[i].overtaken]_vars

\* ------------------------------------------------------- the loading flag
\* C38: loading is true in every state in which at least one load of the
\* projection is in flight (the completion of one of several overlapping
\* loads does not clear it), and false once no load is in flight.  A load
\* still in flight after its user signed out is left aside.
C38_LoadingWhileInFlight ==
  /\ (userId # NoUser /\ fetches # <<>>) => loading
  /\ fetches = <<>> => ~loading

\* ------------------------------------------------------- one poll timer
\* C39: at most one fallback poll timer exists at any time: starting polling
\* while polling is already active replaces the existing timer.
C39_AtMostOnePollTimer ==
  pollTimers <= 1

\* polling runs on one timer after both the connection timeout and a failure
\* status of the channel have asked for it
C39_Witness ==
  /\ supUserId # NoUser
  /\ connTimeout = "fired"
  /\ chanStatus \in {"CHANNEL_ERROR", "TIMED_OUT"}
  /\ pollInterval
  /\ pollTimers = 1
====
